---------------------------- MODULE Spec2Model ----------------------------
(***************************************************************************)
(* Model of the rewriting forward proxy of yuzubb/proxy-yuyu.              *)
(*                                                                         *)
(* The repository holds three revisions of the same Express server:        *)
(*   src/server.js         fixed User-Agent, parsed-body forwarding,       *)
(*                         15 s AbortSignal timeout, buffered passthrough  *)
(*   src/unnamed/part_000  inbound-header forwarding, Range, POST/PUT/     *)
(*                         PATCH body, piped passthrough, no timeout       *)
(*   src/unnamed/part_001  GET only, buffered passthrough, no timeout      *)
(* The variable `variant` says which revision serves the request.          *)
(*                                                                         *)
(* Strings that the code inspects character by character (URLs and         *)
(* references) are sequences of one-character strings.                     *)
(***************************************************************************)
EXTENDS Integers, Sequences, FiniteSets, TLC

(***************************************************************************)
(* Bounds of the model.                                                    *)
(***************************************************************************)
\* longest reference, counted in tokens of RefTokens
MaxRefTokens == 3

(***************************************************************************)
(* Strings as sequences of characters.                                     *)
(***************************************************************************)
RECURSIVE Flatten(_)
Flatten(ss) == IF ss = <<>> THEN <<>> ELSE Head(ss) \o Flatten(Tail(ss))

\* String.prototype.startsWith
StartsWith(s, p) == Len(s) >= Len(p) /\ SubSeq(s, 1, Len(p)) = p

\* the suffix of s from index i on (s.slice(i-1) in the source's 0-based terms)
From(s, i) == SubSeq(s, i, Len(s))

\* index of the first character of s that is in set cs, or Len(s)+1
RECURSIVE FirstIn(_, _, _)
FirstIn(s, cs, i) ==
    IF i > Len(s) THEN Len(s) + 1
    ELSE IF s[i] \in cs THEN i
    ELSE FirstIn(s, cs, i + 1)

\* s split on the character c: always at least one piece
RECURSIVE Split(_, _)
Split(s, c) ==
    LET i == FirstIn(s, {c}, 1)
    IN  IF i > Len(s) THEN <<s>>
        ELSE <<SubSeq(s, 1, i - 1)>> \o Split(From(s, i + 1), c)


(***************************************************************************)
(* The URL class of Node (require('url').URL, the WHATWG URL parser), as   *)
(* far as the alphabet of the model exercises it: lower-case letters, the  *)
(* escape %2F and the delimiters : / ? # .  None of these is in a          *)
(* percent-encode set of the parser, no host can end in a number or hold   *)
(* credentials, and a port can only be empty or malformed. A scheme that   *)
(* is not special is modelled with an opaque path only (tel:a, data:a);    *)
(* InDomain keeps references outside of this out of the inputs.            *)
(***************************************************************************)
Lowers == <<"a","b","c","d","e","f","g","h","i","j","k","l","m",
            "n","o","p","q","r","s","t","u","v","w","x","y","z">>
Uppers == <<"A","B","C","D","E","F","G","H","I","J","K","L","M",
            "N","O","P","Q","R","S","T","U","V","W","X","Y","Z">>
Digits == {"0","1","2","3","4","5","6","7","8","9"}
Alpha  == {Lowers[i] : i \in 1..26} \cup {Uppers[i] : i \in 1..26}

UpperSet == {Uppers[i] : i \in 1..26}
LowerMap == [c \in UpperSet |-> Lowers[CHOOSE i \in 1..26 : Uppers[i] = c]]

\* String.prototype.toLowerCase, on ASCII
LowerOf(c) == IF c \in UpperSet THEN LowerMap[c] ELSE c

ToLower(s) == [i \in 1..Len(s) |-> LowerOf(s[i])]

S_http  == <<"h","t","t","p">>
S_https == <<"h","t","t","p","s">>
S_ftp   == <<"f","t","p">>
S_ws    == <<"w","s">>
S_wss   == <<"w","s","s">>
S_file  == <<"f","i","l","e">>
S_data  == <<"d","a","t","a">>
S_tel   == <<"t","e","l">>

SpecialSchemes == {S_http, S_https, S_ftp, S_ws, S_wss, S_file}

\* the result of a parse that throws (TypeError: Invalid URL)
Failure == [ok |-> FALSE]

\* an optional component is <<>> (null) or <<value>>
Null == <<>>
Some(v) == <<v>>

SchemeChars == Alpha \cup Digits \cup {"+", "-", "."}

\* scheme start state / scheme state
ParseScheme(s) ==
    LET i == FirstIn(s, {":"}, 1)
    IN  IF /\ i <= Len(s)
           /\ i > 1
           /\ s[1] \in Alpha
           /\ \A j \in 2..(i - 1) : s[j] \in SchemeChars
        THEN [found |-> TRUE, scheme |-> ToLower(SubSeq(s, 1, i - 1)),
              rest |-> From(s, i + 1)]
        ELSE [found |-> FALSE, scheme |-> <<>>, rest |-> s]

\* the part of s before its query and fragment
PathPart(s) == SubSeq(s, 1, FirstIn(s, {"?", "#"}, 1) - 1)

\* query state: what follows the first ? up to the fragment
QueryOf(s) ==
    LET i == FirstIn(s, {"?", "#"}, 1)
    IN  IF i <= Len(s) /\ s[i] = "?"
        THEN Some(SubSeq(s, i + 1, FirstIn(s, {"#"}, i + 1) - 1))
        ELSE Null

\* fragment state: what follows the first #
FragmentOf(s) ==
    LET j == FirstIn(s, {"#"}, 1)
    IN  IF j <= Len(s) THEN Some(From(s, j + 1)) ELSE Null

DoubleDots == { <<".", ".">>, <<".", "%", "2", "e">>, <<"%", "2", "e", ".">>,
                <<"%", "2", "e", "%", "2", "e">> }
SingleDots == { <<".">>, <<"%", "2", "e">> }

\* shorten a path (scheme is not file)
Shorten(path) == IF path = <<>> THEN path ELSE SubSeq(path, 1, Len(path) - 1)

\* path state, one segment of `pieces` at a time; the last one ends the path
RECURSIVE PathState(_, _)
PathState(path, pieces) ==
    IF pieces = <<>> THEN path
    ELSE LET seg  == Head(pieces)
             last == Len(pieces) = 1
         IN  IF ToLower(seg) \in DoubleDots
             THEN PathState(IF last THEN Append(Shorten(path), <<>>)
                            ELSE Shorten(path), Tail(pieces))
             ELSE IF ToLower(seg) \in SingleDots
             THEN PathState(IF last THEN Append(path, <<>>) ELSE path,
                            Tail(pieces))
             ELSE PathState(Append(path, seg), Tail(pieces))

\* forbidden domain code points, and % (in this alphabet a % in a host
\* decodes to a forbidden code point or to no valid UTF-8)
ForbiddenHost == {"%", " ", "#", "/", ":", "<", ">", "?", "@", "[", "\\",
                  "]", "^", "|"}

RECURSIVE SkipSlashes(_)
SkipSlashes(s) ==
    IF s # <<>> /\ Head(s) = "/" THEN SkipSlashes(Tail(s)) ELSE s

\* authority state, host state, port state and path start state of a
\* special scheme; t is the input after the slashes
Authority(scheme, t) ==
    LET e       == FirstIn(t, {"/", "?", "#"}, 1)
        auth    == SubSeq(t, 1, e - 1)
        after   == From(t, e)
        c       == FirstIn(auth, {":"}, 1)
        hoststr == SubSeq(auth, 1, c - 1)
        portstr == From(auth, c + 1)
        pathin  == IF after # <<>> /\ Head(after) = "/" THEN Tail(after)
                   ELSE after
    IN  IF \/ hoststr = <<>>
           \/ \E i \in 1..Len(hoststr) : hoststr[i] \in ForbiddenHost
           \/ \E i \in 1..Len(portstr) : portstr[i] \notin Digits
        THEN Failure
        ELSE [ok |-> TRUE, scheme |-> scheme, opaque |-> FALSE,
              host |-> ToLower(hoststr), port |-> portstr,
              path |-> PathState(<<>>, Split(PathPart(pathin), "/")),
              query |-> QueryOf(after), fragment |-> FragmentOf(after)]

\* relative state and relative slash state against a special base
Relative(r, base) ==
    IF r = <<>> THEN [base EXCEPT !.fragment = Null]
    ELSE IF Head(r) = "/"
    THEN IF Len(r) >= 2 /\ r[2] = "/"
         THEN Authority(base.scheme, SkipSlashes(r))
         ELSE [base EXCEPT
                 !.path = PathState(<<>>, Split(PathPart(Tail(r)), "/")),
                 !.query = QueryOf(r), !.fragment = FragmentOf(r)]
    ELSE IF Head(r) = "?"
    THEN [base EXCEPT !.query = QueryOf(r), !.fragment = FragmentOf(r)]
    ELSE IF Head(r) = "#"
    THEN [base EXCEPT !.fragment = FragmentOf(r)]
    ELSE [base EXCEPT
            !.path = PathState(Shorten(base.path), Split(PathPart(r), "/")),
            !.query = QueryOf(r), !.fragment = FragmentOf(r)]

\* opaque path state of a scheme that is not special
Opaque(scheme, r) ==
    [ok |-> TRUE, scheme |-> scheme, opaque |-> TRUE,
     host |-> <<>>, port |-> <<>>, path |-> <<PathPart(r)>>,
     query |-> QueryOf(r), fragment |-> FragmentOf(r)]

\* new URL(input, base): base is a parsed special URL, or Failure for the
\* one-argument form new URL(input)
ParseURL(input, base) ==
    LET sch == ParseScheme(input)
    IN  IF sch.found
        THEN IF sch.scheme \in SpecialSchemes
             THEN IF base.ok /\ base.scheme = sch.scheme
                     /\ ~StartsWith(sch.rest, <<"/", "/">>)
                  THEN Relative(sch.rest, base)
                  ELSE Authority(sch.scheme, SkipSlashes(sch.rest))
             ELSE Opaque(sch.scheme, sch.rest)
        ELSE IF base.ok THEN Relative(input, base) ELSE Failure

\* the url serializer (URL.prototype.href)
RECURSIVE JoinPath(_)
JoinPath(path) ==
    IF path = <<>> THEN <<>> ELSE <<"/">> \o Head(path) \o JoinPath(Tail(path))

Href(u) ==
    u.scheme \o <<":">>
    \o (IF u.opaque THEN u.path[1]
        ELSE <<"/", "/">> \o u.host
             \o (IF u.port = <<>> THEN <<>> ELSE <<":">> \o u.port)
             \o JoinPath(u.path))
    \o (IF u.query = Null THEN <<>> ELSE <<"?">> \o u.query[1])
    \o (IF u.fragment = Null THEN <<>> ELSE <<"#">> \o u.fragment[1])

\* URL.prototype.protocol
Protocol(u) == u.scheme \o <<":">>


(***************************************************************************)
(* encodeURIComponent, and the decoding Express applies to a query value.  *)
(***************************************************************************)
Unreserved == Alpha \cup Digits \cup {"-", "_", ".", "!", "~", "*", "'", "(", ")"}

\* the ASCII code, in upper-case hexadecimal, of the characters of the model
\* that encodeURIComponent escapes
HexTable == << <<":", "3", "A">>, <<"/", "2", "F">>, <<"?", "3", "F">>,
               <<"#", "2", "3">>, <<"%", "2", "5">>, <<"=", "3", "D">>,
               <<"&", "2", "6">>, <<"+", "2", "B">>, <<" ", "2", "0">> >>

EncodeChar(c) ==
    IF c \in Unreserved THEN <<c>>
    ELSE LET row == HexTable[CHOOSE i \in 1..Len(HexTable) : HexTable[i][1] = c]
         IN  <<"%", row[2], row[3]>>

\* encodeURIComponent(s)
encodeURIComponent(s) == Flatten([i \in 1..Len(s) |-> EncodeChar(s[i])])

\* req.query.url: the query parser turns + into a space and undoes every
\* well-formed %XX escape
RECURSIVE QueryDecode(_)
QueryDecode(s) ==
    IF s = <<>> THEN <<>>
    ELSE IF Head(s) = "+" THEN <<" ">> \o QueryDecode(Tail(s))
    ELSE IF /\ Head(s) = "%"
            /\ Len(s) >= 3
            /\ \E i \in 1..Len(HexTable) :
                   /\ HexTable[i][2] = s[2]
                   /\ ToLower(<<HexTable[i][3]>>) = ToLower(<<s[3]>>)
    THEN LET row == HexTable[CHOOSE i \in 1..Len(HexTable) :
                        /\ HexTable[i][2] = s[2]
                        /\ ToLower(<<HexTable[i][3]>>) = ToLower(<<s[3]>>)]
         IN  <<row[1]>> \o QueryDecode(From(s, 4))
    ELSE <<Head(s)>> \o QueryDecode(Tail(s))

(***************************************************************************)
(* The URL rewriter.                                                       *)
(***************************************************************************)
\* '/proxy?url='
PROXY_PREFIX == <<"/", "p", "r", "o", "x", "y", "?", "u", "r", "l", "=">>

P_data == S_data \o <<":">>

\* RewriteAttribute without encodeURIComponent
RewriteAttribute_Raw(originalPath, baseUrl) ==
    IF Len(originalPath) > 0 /\ ~StartsWith(originalPath, P_data)
    THEN LET absoluteUrl == ParseURL(originalPath, baseUrl)
         IN  IF absoluteUrl.ok
             THEN PROXY_PREFIX \o Href(absoluteUrl)
             ELSE originalPath
    ELSE originalPath

\* the href/src/action rewrite of rewriteHtmlContent: the new value of the
\* attribute
RewriteAttribute(originalPath, baseUrl) ==
    IF Len(originalPath) > 0 /\ ~StartsWith(originalPath, P_data)
    THEN LET absoluteUrl == ParseURL(originalPath, baseUrl)
         IN  IF absoluteUrl.ok
             THEN PROXY_PREFIX \o encodeURIComponent(Href(absoluteUrl))
             ELSE originalPath
    ELSE originalPath

\* the replace callback of the url(...) rewrite (stylesheets and inline
\* styles): what stands between the quotes afterwards
RewriteCssUrl(path, baseUrl) ==
    IF \/ StartsWith(path, S_http)
       \/ StartsWith(path, <<"/", "/">>)
       \/ StartsWith(path, P_data)
    THEN path
    ELSE LET absoluteUrl == ParseURL(path, baseUrl)
         IN  IF absoluteUrl.ok
             THEN PROXY_PREFIX \o encodeURIComponent(Href(absoluteUrl))
             ELSE path

(***************************************************************************)
(* References and base URLs the rewriter is run on.                        *)
(***************************************************************************)
RefTokens == { S_http \o <<":">>, S_ftp \o <<":">>, P_data, S_tel \o <<":">>,
               <<"/", "/">>, <<"/">>, <<".", ".">>, <<"a">>,
               <<"%", "2", "F">>, <<"?">>, <<"#">> }

TokenSeqs(n) == UNION { [1..k -> RefTokens] : k \in 0..n }

\* a scheme that is not special comes with an opaque path
InDomain(ref) ==
    LET sch == ParseScheme(ref)
    IN  (sch.found /\ sch.scheme \notin SpecialSchemes)
            => ~StartsWith(sch.rest, <<"/">>)

References == { r \in { Flatten(ts) : ts \in TokenSeqs(MaxRefTokens) } :
                  InDomain(r) }

\* http://x.test/css/a.css
U_css == <<"h","t","t","p",":","/","/","x",".","t","e","s","t",
           "/","c","s","s","/","a",".","c","s","s">>
\* https://x.test/page?a
U_page == <<"h","t","t","p","s",":","/","/","x",".","t","e","s","t",
            "/","p","a","g","e","?","a">>

BaseUrls == { ParseURL(U_css, Failure), ParseURL(U_page, Failure) }


(***************************************************************************)
(* The /proxy handler: data.                                               *)
(***************************************************************************)
\* the most header fields on an inbound request
MaxReqHeaders == 2
\* the most chunks in an upstream response body
MaxChunks == 2

Variants == {"server.js", "part_000", "part_001"}

Methods == {"GET", "HEAD", "POST", "PUT", "PATCH", "DELETE", "OPTIONS"}

\* app.all('/proxy') takes every method, app.get('/proxy') GET and HEAD
RoutedMethods(v) == IF v = "part_001" THEN {"GET", "HEAD"} ELSE Methods

\* inbound header names, as Node gives them (lower case); content-type
\* comes with a body
ReqHeaderNames == {"host", "connection", "content-length", "transfer-encoding",
                   "referer", "range", "accept"}

\* the value of inbound header n, and of upstream response header n
InValue(n) == <<"in", n>>
UpValue(n) == <<"up", n>>

\* inbound bodies: none, a JSON document, a urlencoded form, a plain text
BodyKinds == {"json", "form", "text"}

\* ftp://x.test/f
U_ftp == <<"f","t","p",":","/","/","x",".","t","e","s","t","/","f">>
\* x.test/page (no scheme)
U_bad == <<"x",".","t","e","s","t","/","p","a","g","e">>

\* req.query.url: absent, empty, or a string
QueryUrls == {Null, Some(<<>>), Some(U_bad), Some(U_ftp), Some(P_data \o <<"a">>),
              Some(U_css), Some(U_page)}

\* response header names of the upstream besides content-type
RespHeaderNames == {"connection", "content-encoding", "transfer-encoding",
                    "content-length", "etag"}

\* content-type values, as sequences of tokens: includes() is modelled as
\* the presence of a token
ContentTypes == { <<"text/html">>, <<"text/html", "; charset=utf-8">>,
                  <<"text/css">>, <<"image/png">> }

Includes(value, token) == \E i \in 1..Len(value) : value[i] = token

\* a body is a sequence of chunks; each chunk is one resource reference of
\* the document (the text around it plays no part)
R_rel  == <<"/", "a">>
R_data == P_data \o <<"a">>
Chunks == {R_rel, R_data}

Bodies == UNION { [1..k -> Chunks] : k \in 0..MaxChunks }

Statuses == {200, 404}

NetworkErrors == {"ECONNREFUSED", "ENOTFOUND"}

\* the header maps on the subsets of names, each name with its upstream value
HeaderMaps(names) == { [n \in S |-> UpValue(n)] : S \in SUBSET names }

Put(h, n, v) == [m \in DOMAIN h \cup {n} |-> IF m = n THEN v ELSE h[m]]

\* the header maps of upstream responses: every subset of RespHeaderNames,
\* without and with each content-type
RespHeaderMaps ==
    HeaderMaps(RespHeaderNames)
    \cup { Put(hm, "content-type", ct) :
             hm \in HeaderMaps(RespHeaderNames), ct \in ContentTypes }

\* upstream responses: status, headers, body; body = Null is a response
\* without a body stream (response.body is null). Every status and header
\* map comes with no body stream and with a one-chunk body, and every body
\* with status 200 and at most the content-type header.
Responses ==
    { [status |-> st, headers |-> h, body |-> b] :
        st \in Statuses, h \in RespHeaderMaps, b \in {Null, Some(<<R_rel>>)} }
    \cup
    { [status |-> 200, headers |-> h, body |-> Some(b)] :
        h \in { hm \in RespHeaderMaps : DOMAIN hm \subseteq {"content-type"} },
        b \in Bodies }

\* the one response the upstream gives a request that is not plain
PlainResponse ==
    [status |-> 200,
     headers |-> [n \in {"content-type", "etag"} |->
                    IF n = "etag" THEN UpValue(n) ELSE <<"text/html">>],
     body |-> Some(<<R_rel>>)]

Requests ==
    { [url |-> u, method |-> m, headers |-> hs, body |-> b] :
        u \in QueryUrls, m \in Methods,
        hs \in { S \in SUBSET ReqHeaderNames : Cardinality(S) <= MaxReqHeaders },
        b \in {Null} \cup { Some(k) : k \in BodyKinds } }

\* a plain request: no header, no body, GET
IsPlain(r) == r.headers = {} /\ r.body = Null /\ r.method = "GET"

\* the inputs of the model: every request is answered by PlainResponse or a
\* failure, and a plain request by every response
ResponsesFor(r) == IF IsPlain(r) THEN Responses ELSE {PlainResponse}


(***************************************************************************)
(* The /proxy handler: state.                                              *)
(***************************************************************************)
VARIABLES
    variant,   \* the revision that serves the request
    req,       \* the inbound request
    pc,        \* where the handler is: Received, Fetching (await fetch),
               \* ReadingBody (await arrayBuffer/text), Piping (body.pipe),
               \* Done (nothing left to run)
    fetched,   \* Null, or Some(the request given to fetch)
    timer,     \* AbortSignal.timeout: unset, armed, fired
    conn,      \* the upstream connection: none, waiting (for the headers),
               \* open (body in transit), hung (open, and the upstream sends
               \* nothing more), ended, failed, aborted
    response,  \* Null, or Some(the upstream response)
    delivered, \* how many chunks of the upstream body the proxy has read
    res,       \* the outbound response
    client,    \* the caller: connected, gone
    rw         \* the rewriter run of RewriteSpec

vars == <<variant, req, pc, fetched, timer, conn, response, delivered, res,
          client, rw>>

handlerVars == <<variant, req, pc, fetched, timer, conn, response, delivered,
                 res, client>>

RwIdle == [ref |-> <<>>, base |-> Failure, kind |-> "idle", out |-> <<>>]

\* a fresh ServerResponse
ResInit == [status |-> 200, headers |-> <<>>, body |-> <<>>, error |-> Null,
            json |-> FALSE, branch |-> "none", headersSent |-> FALSE,
            ended |-> FALSE]

(***************************************************************************)
(* Express: res.status(code).send(body) for an object or a string body.    *)
(* send keeps a content-type that is already set (giving it the utf-8      *)
(* charset), sets content-length and, if there is none, an etag of its     *)
(* own, and ends the response. An object is sent as the JSON document      *)
(* { "error": message } (json), a string as it is.                         *)
(***************************************************************************)
SetCharset(type) == <<type[1], "; charset=utf-8">>

Send(r, code, type, message) ==
    LET h0 == r.headers
        h1 == IF "content-type" \in DOMAIN h0
              THEN Put(h0, "content-type", SetCharset(h0["content-type"]))
              ELSE Put(h0, "content-type", <<type, "; charset=utf-8">>)
        h2 == Put(h1, "content-length", <<"computed">>)
        h3 == IF "etag" \in DOMAIN h2 THEN h2 ELSE Put(h2, "etag", <<"computed">>)
    IN  [r EXCEPT !.status = code, !.headers = h3, !.error = Some(message),
                  !.json = (type = "application/json"),
                  !.headersSent = TRUE, !.ended = TRUE]

\* res.status(code).send({ error: message })
SendError(r, code, message) == Send(r, code, "application/json", message)

\* res.status(code).send('text')
SendText(r, code, message) == Send(r, code, "text/html", message)

(***************************************************************************)
(* Validation of the url parameter: the status to answer with, 0 to go on. *)
(***************************************************************************)
P_http  == S_http \o <<":">>
P_https == S_https \o <<":">>

\* ValidateStatus without the check of the protocol
ValidateStatus_AnyScheme(targetUrl) ==
    IF targetUrl = Null \/ targetUrl = Some(<<>>) THEN 400
    ELSE IF ~ParseURL(targetUrl[1], Failure).ok THEN 400
    ELSE 0

ValidateStatus(targetUrl) ==
    IF targetUrl = Null \/ targetUrl = Some(<<>>) THEN 400
    ELSE LET urlObj == ParseURL(targetUrl[1], Failure)
         IN  IF ~urlObj.ok THEN 400
             ELSE IF Protocol(urlObj) # P_http /\ Protocol(urlObj) # P_https
             THEN 403
             ELSE 0

ValidateMessage(code, targetUrl) ==
    IF code = 403 THEN <<"protocol not allowed">>
    ELSE IF targetUrl = Null \/ targetUrl = Some(<<>>) THEN <<"url parameter missing">>
    ELSE <<"invalid url">>

(***************************************************************************)
(* The request given to fetch.                                             *)
(***************************************************************************)
\* the order Object.entries walks req.headers in
HeaderOrder == <<"host", "connection", "content-length", "transfer-encoding",
                 "referer", "range", "accept", "content-type">>

\* req.headers: the names sent, and content-type when there is a body
ReqHeaders(r) ==
    [n \in r.headers \cup (IF r.body = Null THEN {} ELSE {"content-type"}) |->
        InValue(n)]

\* name.toLowerCase() of the keys the handlers write
LowerKey(k) ==
    CASE k = "Range" -> "range"
      [] k = "User-Agent" -> "user-agent"
      [] k = "Content-Type" -> "content-type"
      [] OTHER -> k

\* new Headers(object): the entries of one name, whatever its case, are
\* joined with ", "
RECURSIVE Joined(_, _)
Joined(entries, n) ==
    IF entries = <<>> THEN <<>>
    ELSE LET rest == Joined(Tail(entries), n)
         IN  IF LowerKey(Head(entries)[1]) = n
             THEN IF rest = <<>> THEN Head(entries)[2]
                  ELSE Head(entries)[2] \o <<", ">> \o rest
             ELSE rest

FetchHeaders(entries) ==
    [n \in { LowerKey(entries[i][1]) : i \in 1..Len(entries) } |->
        Joined(entries, n)]

\* part_000: the header names that are not forwarded
StrippedReqHeaders == {"host", "connection", "content-length",
                       "transfer-encoding", "referer"}

\* part_000: headersToSend, as the list of its entries
RECURSIVE CopyHeaders(_, _)
CopyHeaders(h, order) ==
    IF order = <<>> THEN <<>>
    ELSE (IF Head(order) \in DOMAIN h /\ Head(order) \notin StrippedReqHeaders
          THEN << <<Head(order), h[Head(order)]>> >>
          ELSE <<>>)
         \o CopyHeaders(h, Tail(order))

HeadersToSend(h) ==
    CopyHeaders(h, HeaderOrder)
    \o (IF "range" \in DOMAIN h THEN << <<"Range", h["range"]>> >> ELSE <<>>)

\* part_000: the methods whose body is forwarded
BodyMethods == {"POST", "PUT", "PATCH"}

\* server.js: req.body after express.json() and express.urlencoded(): the
\* object parsed from a JSON document or a form, else the empty object (Null)
ParsedBody(r) ==
    IF r.body = Some("json") \/ r.body = Some("form") THEN r.body ELSE Null

\* a forwarded body: the inbound body it comes from, and whether it is sent
\* as received (raw) or re-serialized with JSON.stringify
UA == <<"Mozilla/5.0">>

FetchOptions(v, r) ==
    IF v = "server.js"
    THEN LET withBody == ParsedBody(r) # Null
         IN [method |-> r.method,
             timeout |-> TRUE,
             headers |-> FetchHeaders(
                 << <<"User-Agent", UA>> >>
                 \o (IF withBody /\ "content-type" \in DOMAIN ReqHeaders(r)
                     THEN << <<"Content-Type", ReqHeaders(r)["content-type"]>> >>
                     ELSE <<>>)),
             body |-> IF withBody THEN Some(<<"stringified", r.body[1]>>)
                      ELSE Null]
    ELSE IF v = "part_000"
    THEN [method |-> r.method,
          timeout |-> FALSE,
          headers |-> FetchHeaders(HeadersToSend(ReqHeaders(r))),
          body |-> IF r.method \in BodyMethods /\ r.body # Null
                   THEN Some(<<"raw", r.body[1]>>) ELSE Null]
    ELSE [method |-> "GET", timeout |-> FALSE, headers |-> <<>>, body |-> Null]

\* fetch throws before any request is made when a GET or HEAD has a body
FetchThrows(opts) == opts.body # Null /\ opts.method \in {"GET", "HEAD"}

(***************************************************************************)
(* The catch block: status and message of the error response.              *)
(***************************************************************************)
\* CatchStatus without the test of the error's name
CatchStatus_NameBlind(v, errorName) ==
    IF v = "part_000" THEN 502 ELSE 500

CatchStatus(v, errorName) ==
    IF v = "server.js"
    THEN IF errorName = "TimeoutError" \/ errorName = "AbortError" THEN 504
         ELSE 500
    ELSE IF v = "part_000" THEN 502
    ELSE 500

CatchMessage(v, errorName, errorMessage, targetUrl) ==
    IF v = "server.js" /\ (errorName = "TimeoutError" \/ errorName = "AbortError")
    THEN <<"timed out", targetUrl>>
    ELSE <<"failed", errorMessage>>

Catch(v, r, errorName, errorMessage, targetUrl) ==
    SendError(r, CatchStatus(v, errorName),
              CatchMessage(v, errorName, errorMessage, targetUrl))


(***************************************************************************)
(* The relay of the upstream response.                                     *)
(***************************************************************************)
\* the response header names that are not copied
StrippedRespHeaders == {"connection", "content-encoding", "transfer-encoding",
                        "content-length"}

\* RelayHeaders with content-encoding missing from the list
RelayHeaders_Encoding(h) ==
    [n \in DOMAIN h \ {"connection", "transfer-encoding", "content-length"} |->
        h[n]]

\* response.headers.forEach(... res.setHeader(name, value)) on a fresh
\* response: fetch gives the names in lower case
RelayHeaders(h) == [n \in DOMAIN h \ StrippedRespHeaders |-> h[n]]

\* the dispatch on response.headers.get('content-type')
Branch(h) ==
    IF "content-type" \in DOMAIN h /\ Includes(h["content-type"], "text/html")
    THEN "html"
    ELSE IF "content-type" \in DOMAIN h /\ Includes(h["content-type"], "text/css")
    THEN "css"
    ELSE "raw"

\* rewriteHtmlContent(content, targetUrl), on the references of the document
RewriteHtmlContent(body, targetUrl) ==
    LET baseUrl == ParseURL(targetUrl, Failure)
    IN  [i \in 1..Len(body) |-> RewriteAttribute(body[i], baseUrl)]

\* cssContent.replace(/url(...)/gi, ...), on the references of the sheet
RewriteCssContent(body, targetUrl) ==
    LET baseUrl == ParseURL(targetUrl, Failure)
    IN  [i \in 1..Len(body) |-> RewriteCssUrl(body[i], baseUrl)]

\* what res.end(...) is given once the whole body is read
Content(branch, body, targetUrl) ==
    IF branch = "html" THEN RewriteHtmlContent(body, targetUrl)
    ELSE IF branch = "css" THEN RewriteCssContent(body, targetUrl)
    ELSE body

\* the chunks of an upstream response (none if it has no body stream)
BodyOf(resp) == IF resp.body = Null THEN <<>> ELSE resp.body[1]

TargetUrl == req.url[1]

Awaiting == {"Fetching", "ReadingBody"}

(***************************************************************************)
(* The /proxy handler: actions.                                            *)
(***************************************************************************)
Init ==
    /\ variant \in Variants
    /\ req \in { r \in Requests : r.method \in RoutedMethods(variant) }
    /\ pc = "Received"
    /\ fetched = Null
    /\ timer = "unset"
    /\ conn = "none"
    /\ response = Null
    /\ delivered = 0
    /\ res = ResInit
    /\ client = "connected"
    /\ rw = RwIdle

\* the url parameter is missing, unparsable or of another scheme
ValidationFails ==
    /\ pc = "Received"
    /\ ValidateStatus(req.url) # 0
    /\ res' = SendError(res, ValidateStatus(req.url),
                        ValidateMessage(ValidateStatus(req.url), req.url))
    /\ pc' = "Done"
    /\ UNCHANGED <<variant, req, fetched, timer, conn, response, delivered,
                   client, rw>>

\* the url is valid and fetch refuses the options: the catch block answers
FetchRefused ==
    /\ pc = "Received"
    /\ ValidateStatus(req.url) = 0
    /\ FetchThrows(FetchOptions(variant, req))
    /\ timer' = IF FetchOptions(variant, req).timeout THEN "armed" ELSE timer
    /\ res' = Catch(variant, res, "TypeError",
                    "Request with GET/HEAD method cannot have body", TargetUrl)
    /\ pc' = "Done"
    /\ UNCHANGED <<variant, req, fetched, conn, response, delivered, client, rw>>

\* part_000 gives fetch the inbound request as a stream body and no duplex
\* option: the fetch built into Node (the file requires no other) refuses
\* it, a fetch that takes Node streams goes on with StartFetch
StreamBodyRefused ==
    /\ pc = "Received"
    /\ ValidateStatus(req.url) = 0
    /\ variant = "part_000"
    /\ req.method \in BodyMethods
    /\ res' = Catch(variant, res, "TypeError", "duplex option is required",
                    TargetUrl)
    /\ pc' = "Done"
    /\ UNCHANGED <<variant, req, fetched, timer, conn, response, delivered,
                   client, rw>>

\* the url is valid: fetch(targetUrl, fetchOptions) sends the request
StartFetch ==
    /\ pc = "Received"
    /\ ValidateStatus(req.url) = 0
    /\ ~FetchThrows(FetchOptions(variant, req))
    /\ fetched' = Some(FetchOptions(variant, req))
    /\ timer' = IF FetchOptions(variant, req).timeout THEN "armed" ELSE timer
    /\ conn' = "waiting"
    /\ pc' = "Fetching"
    /\ UNCHANGED <<variant, req, response, delivered, res, client, rw>>

\* the upstream answers: status and headers are relayed, then the body is
\* awaited whole (arrayBuffer, text) or, in part_000, piped
FetchResolves ==
    /\ pc = "Fetching"
    /\ conn = "waiting"
    /\ \E resp \in ResponsesFor(req) :
         LET r1 == [res EXCEPT !.status = resp.status,
                               !.headers = RelayHeaders(resp.headers),
                               !.branch = Branch(resp.headers)]
             piped == variant = "part_000" /\ Branch(resp.headers) = "raw"
         IN  /\ response' = Some(resp)
             /\ IF piped /\ resp.body = Null
                THEN /\ res' = SendText(r1, 500, <<"no response body">>)
                     /\ pc' = "Done"
                     /\ conn' = "ended"
                ELSE /\ res' = r1
                     /\ pc' = IF piped THEN "Piping" ELSE "ReadingBody"
                     /\ conn' = "open"
    /\ UNCHANGED <<variant, req, fetched, timer, delivered, client, rw>>

\* part_000 calls response.body.pipe(res): the body of the fetch built into
\* Node is a web stream, which has no pipe, and the TypeError is caught after
\* status and headers were relayed; with a fetch whose body is a Node stream
\* FetchResolves goes on to pipe
PipeThrows ==
    /\ pc = "Fetching"
    /\ conn = "waiting"
    /\ variant = "part_000"
    /\ \E resp \in ResponsesFor(req) :
         /\ Branch(resp.headers) = "raw"
         /\ resp.body # Null
         /\ response' = Some(resp)
         /\ res' = Catch(variant,
                         [res EXCEPT !.status = resp.status,
                                     !.headers = RelayHeaders(resp.headers),
                                     !.branch = "raw"],
                         "TypeError", "response.body.pipe is not a function",
                         TargetUrl)
    /\ conn' = "open"
    /\ pc' = "Done"
    /\ UNCHANGED <<variant, req, fetched, timer, delivered, client, rw>>

\* the connection to the upstream fails before there is an answer
FetchRejects ==
    /\ pc = "Fetching"
    /\ conn = "waiting"
    /\ \E e \in NetworkErrors :
         res' = Catch(variant, res, "TypeError", e, TargetUrl)
    /\ conn' = "failed"
    /\ pc' = "Done"
    /\ UNCHANGED <<variant, req, fetched, timer, response, delivered, client, rw>>

\* the upstream goes silent for good, with the connection open
UpstreamHangs ==
    /\ pc \in {"Fetching", "ReadingBody", "Piping"}
    /\ conn \in {"waiting", "open"}
    /\ conn' = "hung"
    /\ UNCHANGED <<variant, req, pc, fetched, timer, response, delivered, res,
                   client, rw>>

\* one more chunk of the body arrives and is read; pipe() writes it to the
\* caller at once, and reads nothing once the caller's side has closed
UpstreamChunk ==
    /\ pc \in {"ReadingBody", "Piping"}
    /\ conn = "open"
    /\ delivered < Len(BodyOf(response[1]))
    /\ pc = "Piping" => client = "connected"
    /\ delivered' = delivered + 1
    /\ res' = IF pc = "Piping"
              THEN [res EXCEPT
                      !.body = Append(@, BodyOf(response[1])[delivered + 1]),
                      !.headersSent = TRUE]
              ELSE res
    /\ UNCHANGED <<variant, req, pc, fetched, timer, conn, response, client, rw>>

\* the body ends: the buffered content is rewritten and sent with res.end,
\* or pipe() ends the response
UpstreamEnd ==
    /\ pc \in {"ReadingBody", "Piping"}
    /\ conn = "open"
    /\ delivered = Len(BodyOf(response[1]))
    /\ pc = "Piping" => client = "connected"
    /\ conn' = "ended"
    /\ res' = IF pc = "Piping"
              THEN [res EXCEPT !.headersSent = TRUE, !.ended = TRUE]
              ELSE [res EXCEPT
                      !.body = Content(res.branch, BodyOf(response[1]), TargetUrl),
                      !.headersSent = TRUE, !.ended = TRUE]
    /\ pc' = "Done"
    /\ UNCHANGED <<variant, req, fetched, timer, response, delivered, client, rw>>

\* reading the body fails: the awaited read throws into the catch block; the
\* 'error' listener of part_000 answers only if nothing was sent yet
UpstreamError ==
    /\ pc \in {"ReadingBody", "Piping"}
    /\ conn = "open"
    /\ conn' = "failed"
    /\ IF pc = "ReadingBody"
       THEN /\ res' = Catch(variant, res, "TypeError", "terminated", TargetUrl)
            /\ pc' = "Done"
       ELSE IF ~res.headersSent
       THEN /\ res' = SendText(res, 500, <<"stream error">>)
            /\ pc' = "Done"
       ELSE UNCHANGED <<res, pc>>
    /\ UNCHANGED <<variant, req, fetched, timer, response, delivered, client, rw>>

\* AbortSignal.timeout fires while fetch or the body read is awaited
TimerFires ==
    /\ timer = "armed"
    /\ pc \in Awaiting
    /\ timer' = "fired"
    /\ conn' = "aborted"
    /\ \E name \in {"TimeoutError", "AbortError"} :
         /\ pc = "Fetching" => name = "TimeoutError"
         /\ res' = Catch(variant, res, name,
                         "The operation was aborted due to timeout", TargetUrl)
    /\ pc' = "Done"
    /\ UNCHANGED <<variant, req, fetched, response, delivered, client, rw>>

\* the caller closes its connection; no handler listens for it
ClientDisconnect ==
    /\ pc \in {"Fetching", "ReadingBody", "Piping"}
    /\ client = "connected"
    /\ client' = "gone"
    /\ UNCHANGED <<variant, req, pc, fetched, timer, conn, response, delivered,
                   res, rw>>

Next ==
    \/ ValidationFails
    \/ FetchRefused
    \/ StreamBodyRefused
    \/ StartFetch
    \/ FetchResolves
    \/ PipeThrows
    \/ FetchRejects
    \/ UpstreamHangs
    \/ UpstreamChunk
    \/ UpstreamEnd
    \/ UpstreamError
    \/ TimerFires
    \/ ClientDisconnect

Spec == Init /\ [][Next]_vars


\* the steps of the handler, of its timer and of an upstream that has not
\* gone silent
Progress ==
    \/ ValidationFails
    \/ FetchRefused
    \/ StreamBodyRefused
    \/ StartFetch
    \/ FetchResolves
    \/ PipeThrows
    \/ FetchRejects
    \/ UpstreamChunk
    \/ UpstreamEnd
    \/ UpstreamError
    \/ TimerFires

\* ENABLED Progress, from the guards of these actions: the handler has yet
\* to run, the upstream can answer or fail, a body in transit can go on, end
\* or fail, an armed timer can fire on an awaiting handler
CanProgress ==
    \/ pc = "Received"
    \/ pc = "Fetching" /\ conn = "waiting"
    \/ pc \in {"ReadingBody", "Piping"} /\ conn = "open"
    \/ timer = "armed" /\ pc \in Awaiting

(***************************************************************************)
(* The rewriter on its own: one reference, one base URL, one of the two    *)
(* rewrites.                                                               *)
(***************************************************************************)
RwRequest == [url |-> Null, method |-> "GET", headers |-> {}, body |-> Null]

RwInit ==
    /\ rw \in { [ref |-> r, base |-> b, kind |-> "input", out |-> <<>>] :
                  r \in References, b \in BaseUrls }
    /\ variant = "server.js"
    /\ req = RwRequest
    /\ pc = "Done"
    /\ fetched = Null
    /\ timer = "unset"
    /\ conn = "none"
    /\ response = Null
    /\ delivered = 0
    /\ res = ResInit
    /\ client = "connected"

\* the reference is the href, src or action of an element
RewriteAttr ==
    /\ rw.kind = "input"
    /\ rw' = [rw EXCEPT !.kind = "attribute",
                        !.out = RewriteAttribute(rw.ref, rw.base)]
    /\ UNCHANGED handlerVars

\* the reference stands in a url(...) of a stylesheet or a style attribute
RewriteCss ==
    /\ rw.kind = "input"
    /\ rw' = [rw EXCEPT !.kind = "css",
                        !.out = RewriteCssUrl(rw.ref, rw.base)]
    /\ UNCHANGED handlerVars

RwNext == RewriteAttr \/ RewriteCss

RewriteSpec == RwInit /\ [][RwNext]_vars


(***************************************************************************)
(* The claims.                                                             *)
(***************************************************************************)
Parsed(u) == ParseURL(u[1], Failure)

\* C1: a request without url parameter is answered 400, one whose url does
\* not parse as an absolute URL 400, one whose URL has a scheme other than
\* http and https 403, and for none of them a request is made upstream.
C1_ValidationBeforeFetch ==
    LET urlObj   == IF req.url = Null THEN Failure ELSE Parsed(req.url)
        missing  == req.url = Null
        unparsed == req.url # Null /\ ~urlObj.ok
        foreign  == urlObj.ok /\ urlObj.scheme \notin {S_http, S_https}
    IN  (missing \/ unparsed \/ foreign) =>
            /\ fetched = Null
            /\ conn = "none"
            /\ response = Null
            /\ pc \in {"Received", "Done"}
            /\ pc = "Done" =>
                 /\ res.ended
                 /\ res.status = IF foreign THEN 403 ELSE 400

C1_Witness ==
    /\ pc = "Done"
    /\ req.url = Some(U_ftp)
    /\ res.status = 403
    /\ fetched = Null

\* C2: in server.js, which sets the 15 s timeout, the timer is armed for as
\* long as fetch or the body read is awaited, and a request whose timer has
\* fired has ended with status 504 and the timeout message, never with the
\* 500 of the other failures.
C2_TimeoutIs504 ==
    /\ (variant = "server.js" /\ pc \in {"Fetching", "ReadingBody"}) =>
           timer = "armed"
    /\ timer = "fired" =>
           /\ pc = "Done"
           /\ res.ended
           /\ res.status = 504
           /\ res.status # 500
           /\ res.error = Some(<<"timed out", TargetUrl>>)

C2_Witness ==
    /\ variant = "server.js"
    /\ timer = "fired"
    /\ response = Null
    /\ conn = "aborted"
    /\ res.status = 504

\* C6: once the upstream has answered, the outbound response has every
\* upstream header but connection, content-encoding, transfer-encoding and
\* content-length, on each branch; as long as the proxy has not turned the
\* response into one of its own error responses each has the upstream's
\* value and none of the four is there; and none of these four ever has the
\* upstream's value.
C6_HeaderRelay ==
    LET four == {"connection", "content-encoding", "transfer-encoding",
                 "content-length"}
    IN  /\ response # Null =>
              /\ res.branch \in {"html", "css", "raw"}
              /\ \A n \in DOMAIN response[1].headers \ four :
                    n \in DOMAIN res.headers
        /\ (response # Null /\ res.error = Null) =>
              /\ \A n \in DOMAIN response[1].headers \ four :
                    res.headers[n] = response[1].headers[n]
              /\ \A n \in four : n \notin DOMAIN res.headers
        /\ \A n \in four :
              n \in DOMAIN res.headers => res.headers[n] # UpValue(n)

C6_Witness ==
    /\ pc = "Done"
    /\ res.ended
    /\ res.error = Null
    /\ res.branch = "css"
    /\ DOMAIN response[1].headers =
          {"content-type", "content-encoding", "content-length", "etag"}
    /\ DOMAIN res.headers = {"content-type", "etag"}


\* the revisions whose error handling, header forwarding, body forwarding
\* and dispatch the claims below are about
Forwarders == {"server.js", "part_000"}

\* C3: when fetch fails on the network before any answer, the request ends
\* with status 502 and an error message that holds the failure text.
C3_NetworkFailureIs502 ==
    (variant \in Forwarders /\ pc = "Done" /\ conn = "failed" /\ response = Null)
        => /\ res.ended
           /\ res.status = 502
           /\ \E e \in NetworkErrors : res.error = Some(<<"failed", e>>)

\* C4: a request whose caller stays connected is never held for ever: as
\* long as the handler has not ended the response, the handler, its timer
\* or the upstream has a step to take, whatever the upstream has done.
C4_EveryRequestEnds ==
    client = "connected" => ((pc = "Done" /\ res.ended) \/ CanProgress)

\* C5: the request made upstream has every inbound header but host,
\* connection, content-length, transfer-encoding and referer, with its
\* value, has none of these five, and has the caller's Range unchanged.
C5_RequestHeaders ==
    (variant \in Forwarders /\ fetched # Null) =>
        LET inbound == ReqHeaders(req)
            sent    == fetched[1].headers
            five    == {"host", "connection", "content-length",
                        "transfer-encoding", "referer"}
        IN  /\ \A n \in five : n \notin DOMAIN sent
            /\ \A n \in DOMAIN inbound \ five :
                  n \in DOMAIN sent /\ sent[n] = inbound[n]
            /\ "range" \in DOMAIN inbound =>
                  ("range" \in DOMAIN sent /\ sent["range"] = inbound["range"])

\* C7: the request made upstream has a body only if the method is POST, PUT
\* or PATCH, and then it has the inbound body: as it came, or a JSON document
\* written anew as JSON.
C7_BodyByMethod ==
    (variant \in Forwarders /\ fetched # Null) =>
        /\ fetched[1].body # Null => req.method \in {"POST", "PUT", "PATCH"}
        /\ (req.method \in {"POST", "PUT", "PATCH"} /\ req.body # Null) =>
              \/ fetched[1].body = Some(<<"raw", req.body[1]>>)
              \/ fetched[1].body = Some(<<"stringified", "json">>)
                 /\ req.body = Some("json")

\* C8: when the upstream has answered, neither its answer nor its body has
\* failed or been aborted, and the handler is done, the response is the one
\* of the branch its content-type chooses:
\* text/html the HTML rewrite against the target URL, text/css the CSS
\* rewrite against the target URL, anything else the upstream body as it is;
\* and the status is the upstream's.
C8_Dispatch ==
    (/\ variant \in Forwarders
     /\ pc = "Done"
     /\ response # Null
     /\ conn \notin {"failed", "aborted"}) =>
        LET up   == response[1]
            type == IF "content-type" \in DOMAIN up.headers
                    THEN up.headers["content-type"] ELSE <<>>
            base == Parsed(req.url)
        IN  /\ res.ended
            /\ res.status = up.status
            /\ res.error = Null
            /\ IF Includes(type, "text/html")
               THEN /\ res.branch = "html"
                    /\ res.body = [i \in 1..Len(BodyOf(up)) |->
                                     RewriteAttribute(BodyOf(up)[i], base)]
               ELSE IF Includes(type, "text/css")
               THEN /\ res.branch = "css"
                    /\ res.body = [i \in 1..Len(BodyOf(up)) |->
                                     RewriteCssUrl(BodyOf(up)[i], base)]
               ELSE /\ res.branch = "raw"
                    /\ res.body = BodyOf(up)

\* the value of the url parameter of a proxied URL, as the proxy reads it
UrlParameter(proxied) == QueryDecode(From(proxied, Len(PROXY_PREFIX) + 1))

\* value is /proxy?url= and the percent-encoding of the reference resolved
\* against the base, and its url parameter decodes to that URL
IsProxied(value, ref, base) ==
    /\ value = PROXY_PREFIX \o encodeURIComponent(Href(ParseURL(ref, base)))
    /\ \A i \in (Len(PROXY_PREFIX) + 1)..Len(value) :
          value[i] \in Unreserved \cup {"%"}
    /\ UrlParameter(value) = Href(ParseURL(ref, base))

C10_AbortOnDisconnect ==
    [][/\ ( /\ pc \in {"ReadingBody", "Piping"}
            /\ conn \in {"open", "hung"}
            /\ client = "connected"
            /\ client' = "gone" ) => conn' = "aborted"
       /\ ( /\ pc \in {"ReadingBody", "Piping"}
            /\ client = "gone" ) => delivered' = delivered]_vars

\* C11: when reading the upstream body fails on the passthrough branch, the
\* request is over and the response to the caller is ended; and if nothing
\* of the body had been written to the caller, the response is an error
\* response of the proxy with a 5xx status.
C11_MidStreamError ==
    (/\ variant \in Forwarders
     /\ response # Null
     /\ res.branch = "raw"
     /\ conn = "failed") =>
        /\ pc = "Done"
        /\ res.ended
        /\ res.body = <<>> => (res.error # Null /\ res.status \in 500..599)

\* C12: an error response the proxy gives after the upstream's status and
\* headers were applied has a 5xx status of the proxy, a JSON body with the
\* one field error, the content-type of that body, and no header with the
\* value the upstream gave it.
C12_ErrorResponseIsOwn ==
    (variant \in Forwarders /\ response # Null /\ res.error # Null) =>
        /\ res.ended
        /\ res.status \in 500..599
        /\ res.json
        /\ res.headers["content-type"][1] = "application/json"
        /\ \A n \in DOMAIN res.headers \cap DOMAIN response[1].headers :
              res.headers[n] # response[1].headers[n]

\* C13: a reference that a rewrite has replaced is a proxied URL whose url
\* parameter, as the proxy reads it, passes the validation: it parses as an
\* absolute URL of scheme http or https.
C13_RewrittenIsValid ==
    (rw.kind \in {"attribute", "css"} /\ rw.out # rw.ref) =>
        /\ StartsWith(rw.out, PROXY_PREFIX)
        /\ ValidateStatus(Some(UrlParameter(rw.out))) = 0

=============================================================================
